---- MODULE Spec2Model ----
(***************************************************************************)
(* Nurse-Station-Dashboard: the alert derivation and the alarm lifecycle   *)
(* of src/src/App.jsx (latest revision in the file, lines 726-1864).       *)
(*                                                                         *)
(* The React component is modelled as its state cells, the values the last *)
(* committed render closed over, and one Render action that runs the       *)
(* effects whose dependencies changed, in declaration order.  The          *)
(* AlarmSound object is one record; its methods are operators on it.       *)
(***************************************************************************)
EXTENDS Integers, Sequences, FiniteSets, TLC

\* ------------------------------------------------------------------ bounds

\* Number of rooms under hospital_system/wards/ward_A in a snapshot.
MaxRooms == 2

\* update() calls the device tab has in flight at a time.
MaxWrites == 2

Rooms == 1..MaxRooms

\* ------------------------------------------------------- JavaScript values

\* A JavaScript value as the backend can deliver it: a boolean, a string (a
\* sequence of characters), a number, or undefined (the field is absent).
JBool(x) == [t |-> "bool", b |-> x, s |-> <<>>, n |-> 0]

JStr(x) == [t |-> "str", b |-> FALSE, s |-> x, n |-> 0]

JNum(x) == [t |-> "num", b |-> FALSE, s |-> <<>>, n |-> x]

JUndef == [t |-> "undef", b |-> FALSE, s |-> <<>>, n |-> 0]

\* JavaScript truthiness, as `if (v)` and `a || b` decide it.
Truthy(v) ==
    CASE v.t = "bool" -> v.b
      [] v.t = "str" -> v.s # <<>>
      [] v.t = "num" -> v.n # 0
      [] OTHER -> FALSE

\* `v === 'literal'`: strict equality with a string literal.
StrictEqStr(v, lit) == v.t = "str" /\ v.s = lit

\* `v > 0` for the values motion.val takes here (undefined > 0 is false).
GreaterThanZero(v) == v.t = "num" /\ v.n > 0

\* String.prototype.toLowerCase on the ASCII letters.
UpperToLower ==
    [A |-> "a", B |-> "b", C |-> "c", D |-> "d", E |-> "e", F |-> "f",
     G |-> "g", H |-> "h", I |-> "i", J |-> "j", K |-> "k", L |-> "l",
     M |-> "m", N |-> "n", O |-> "o", P |-> "p", Q |-> "q", R |-> "r",
     S |-> "s", T |-> "t", U |-> "u", V |-> "v", W |-> "w", X |-> "x",
     Y |-> "y", Z |-> "z"]

LowerChar(c) == IF c \in DOMAIN UpperToLower THEN UpperToLower[c] ELSE c

toLowerCase(str) == [i \in 1..Len(str) |-> LowerChar(str[i])]

\* The string literals of the source and of the telemetry.
sFallDown == <<"F", "a", "l", "l", " ", "D", "o", "w", "n">>

sFallDetected == <<"f", "a", "l", "l", "_", "d", "e", "t", "e", "c", "t", "e", "d">>

sFall == <<"f", "a", "l", "l">>

sEmergency == <<"E", "m", "e", "r", "g", "e", "n", "c", "y">>

sNormal == <<"N", "o", "r", "m", "a", "l">>

sONLINE == <<"O", "N", "L", "I", "N", "E">>

sGarbled == <<"x", "?", "7">>

sTrue == <<"t", "r", "u", "e">>

sFalse == <<"f", "a", "l", "s", "e">>

sFALSE == <<"F", "A", "L", "S", "E">>

sLowerNormal == <<"n", "o", "r", "m", "a", "l">>

sLowerOnline == <<"o", "n", "l", "i", "n", "e">>

\* ------------------------------------------------------------- AlarmSound

\* The <audio> element _createFallbackAudio builds: paused, at position 0,
\* volume 1.  `exists` is FALSE for the null the field keeps when building
\* the element threw (the catch ignores it).
\*   currentTime  0 at the start of the clip, 1 anywhere after it
FallbackAudio(exists) ==
    [exists |-> exists, paused |-> TRUE, currentTime |-> 0, volume |-> 1]

\* The AlarmSound object after `new AlarmSound()` and init(): the fields of
\* the constructor, the fallback element, and what the browser holds for the
\* object: the number of live setInterval timers and whether a buffer source
\* started by playOnce is still sounding.
\*   audioCtx     "null" | "suspended" | "running" | "closed"
\*   intervalId   0 for null, 1 for a timer handle
NewAlarmSound(hasFallback) ==
    [audioCtx |-> "null",
     intervalId |-> 0,
     isPlaying |-> FALSE,
     isUnlocked |-> FALSE,
     alarmBuffer |-> FALSE,
     fallbackAudio |-> FallbackAudio(hasFallback),
     timers |-> 0,
     source |-> FALSE]

\* playOnce: one buffer source is started unless the player is stopped or has
\* no audio context; it sounds when the context is running.
playOnce(a) ==
    IF ~a.isPlaying \/ a.audioCtx = "null"
    THEN a
    ELSE [a EXCEPT !.source = (@ \/ a.audioCtx = "running")]

\* _playWebAudio: resume() a suspended context (`ok`: the browser resumes
\* it), sound now, and a repeating timer every 2000 ms.
_playWebAudio(a, ok) ==
    LET b == IF a.audioCtx = "suspended" /\ ok
             THEN [a EXCEPT !.audioCtx = "running"]
             ELSE a
    IN [playOnce(b) EXCEPT !.intervalId = 1, !.timers = @ + 1]

\* _playFallback: rewind, full volume, play(); `ok`: the browser starts the
\* clip (play() rejects while autoplay is not allowed, and the rejection is
\* swallowed).
_playFallback(a, ok) ==
    [a EXCEPT !.fallbackAudio =
        [exists |-> @.exists,
         paused |-> IF ok THEN FALSE ELSE @.paused,
         currentTime |-> 0,
         volume |-> 1]]

\* play() without its isPlaying guard.
play_NoGuard(a, ok) ==
    LET b == [a EXCEPT !.isPlaying = TRUE]
    IN IF b.audioCtx # "null" /\ b.alarmBuffer /\ b.isUnlocked
       THEN _playWebAudio(b, ok)
       ELSE IF b.fallbackAudio.exists THEN _playFallback(b, ok) ELSE b

\* play(): nothing while already playing; otherwise the synthesized path
\* when it is ready, else the pre-rendered clip.
play(a, ok) ==
    IF a.isPlaying
    THEN a
    ELSE LET b == [a EXCEPT !.isPlaying = TRUE]
         IN IF b.audioCtx # "null" /\ b.alarmBuffer /\ b.isUnlocked
            THEN _playWebAudio(b, ok)
            ELSE IF b.fallbackAudio.exists THEN _playFallback(b, ok) ELSE b

\* stop() that forgets clearInterval.
stop_KeepsTimer(a) ==
    [a EXCEPT !.isPlaying = FALSE,
              !.fallbackAudio =
                  IF @.exists THEN [@ EXCEPT !.paused = TRUE, !.currentTime = 0] ELSE @]

\* stop(): clears the timer whose handle it holds, pauses and rewinds the clip.
stop(a) ==
    [a EXCEPT !.isPlaying = FALSE,
              !.intervalId = 0,
              !.timers = IF a.intervalId # 0 THEN @ - 1 ELSE @,
              !.fallbackAudio =
                  IF @.exists THEN [@ EXCEPT !.paused = TRUE, !.currentTime = 0] ELSE @]

\* A method call on a field raises a TypeError when the field holds null.
OnNull(present) == ~present

\* p.catch(() => { }): whether p rejects or not, nothing goes further.
Swallowed(rejects) == FALSE

\* What stop() raises: the clip is touched only inside `if (this.fallbackAudio)`.
stopRaises(a) == a.fallbackAudio.exists /\ OnNull(a.fallbackAudio.exists)

\* What dispose() raises or leaves as an unhandled rejection: the context is
\* closed only inside `if (this.audioCtx)`, and close() of a context that is
\* already closed rejects into the .catch.
disposeRaises(a) ==
    \/ stopRaises(a)
    \/ /\ a.audioCtx # "null"
       /\ OnNull(a.audioCtx # "null") \/ Swallowed(a.audioCtx = "closed")

\* dispose() that closes the context and leaves the alarm as it is.
dispose_SkipsStop(a) ==
    IF a.audioCtx = "null"
    THEN a
    ELSE [a EXCEPT !.audioCtx = "closed", !.source = FALSE]

\* dispose(): stop(), then close the audio context if there is one (closing
\* silences what it plays; a rejected close() is swallowed).
dispose(a) ==
    LET b == stop(a)
    IN IF b.audioCtx = "null"
       THEN b
       ELSE [b EXCEPT !.audioCtx = "closed", !.source = FALSE]

\* ---------------------------------------------------------- _unlock (async)

\* _unlock on a running context, up to its next await or its end: the silent
\* tone, _generateAlarmBuffer, then the priming of the fallback clip (volume 0
\* and play(), which un-pauses the element at once; the promise settles
\* later).  With no fallback element it finishes at once.  `synth` is FALSE
\* when the silent tone or the buffer synthesis throws: the outer catch logs
\* it and nothing is set.
UnlockPrime(a, synth) ==
    IF ~synth
    THEN [alarm |-> a, pc |-> "idle"]
    ELSE IF a.fallbackAudio.exists
    THEN [alarm |-> [a EXCEPT !.alarmBuffer = TRUE,
                              !.fallbackAudio = [@ EXCEPT !.paused = FALSE, !.volume = 0]],
          pc |-> "fbplay"]
    ELSE [alarm |-> [a EXCEPT !.alarmBuffer = TRUE, !.isUnlocked = TRUE],
          pc |-> "idle"]

\* _unlock from its call to its first await or return.  `c` is what
\* `new AudioContext()` gives when the object has none yet: a context that is
\* "running" or "suspended", or "throws" (caught by the outer try).
UnlockBegin(a, c, synth) ==
    IF a.audioCtx = "null" /\ c = "throws"
    THEN [alarm |-> a, pc |-> "idle"]
    ELSE LET b == IF a.audioCtx = "null" THEN [a EXCEPT !.audioCtx = c] ELSE a
         IN CASE b.audioCtx = "suspended" -> [alarm |-> b, pc |-> "resume"]
              [] b.audioCtx = "closed" -> [alarm |-> b, pc |-> "idle"]
              [] OTHER -> UnlockPrime(b, synth)

\* _unlock after `await this.audioCtx.resume()`: `r` is the state the context
\* is in then; still suspended means return, and so does a context that
\* dispose() closed in the meantime (its resume() rejects, which is ignored).
UnlockAfterResume(a, r, synth) ==
    LET b == IF a.audioCtx = "closed" THEN a ELSE [a EXCEPT !.audioCtx = r]
    IN IF b.audioCtx = "suspended" \/ b.audioCtx = "closed"
       THEN [alarm |-> b, pc |-> "idle"]
       ELSE UnlockPrime(b, synth)

\* _unlock after `await this.fallbackAudio.play()`: resolved, the clip is
\* paused, rewound and set back to full volume; rejected (caught), the browser
\* has left it paused and the volume stays 0.  Either way isUnlocked is set.
UnlockAfterFallback(a, ok) ==
    [a EXCEPT !.isUnlocked = TRUE,
              !.fallbackAudio =
                  IF ok
                  THEN [@ EXCEPT !.paused = TRUE, !.currentTime = 0, !.volume = 1]
                  ELSE [@ EXCEPT !.paused = TRUE]]

\* ------------------------------------------------------------- alert logic

\* A room of a ward snapshot, with the optional chains already applied:
\* fall_detected is room.live_status?.fall_detected, motion_val is
\* room.motion?.val, acknowledged is room.live_status?.acknowledged.
Room(fd, mv, ack) == [fall_detected |-> fd, motion_val |-> mv, acknowledged |-> ack]

\* Methods 1 and 2 of the alert effect, for one room.
RoomFall(room) ==
    Truthy(room.fall_detected) \/ GreaterThanZero(room.motion_val)

\* Method 3: the global /sensor_data status.
SensorFall(sd) ==
    StrictEqStr(sd.status, sFallDown) \/ StrictEqStr(sd.status, sFallDetected)

\* `emergency` without method 3.
Emergency_RoomsOnly(w, sd) ==
    \E r \in DOMAIN w : RoomFall(w[r])

\* `emergency` as the alert effect computes it from the two snapshots.
Emergency(w, sd) ==
    (\E r \in DOMAIN w : RoomFall(w[r])) \/ SensorFall(sd)

\* isEmergency of a room card (and isFallDetected of a paired room): the
\* room's own indicators, or the global status 'Fall Down'.
isEmergency(room, sd) ==
    RoomFall(room) \/ StrictEqStr(sd.status, sFallDown)

\* play() takes the synthesized path.
WebPathReady(a) == a.audioCtx # "null" /\ a.alarmBuffer /\ a.isUnlocked

\* The condition of the alarm control effect.
ShouldPlay(aa, muted, ack) == aa /\ ~muted /\ ~ack

\* The alert effect resetting the acknowledgement on every evaluation that
\* finds an emergency, changed or not.
AlertEffect_ResetsOnEveryEmergency(aa, ack, w, sd) ==
    LET emergency == Emergency(w, sd)
    IN [activeAlert |-> emergency,
        alarmAcknowledged |-> IF emergency THEN FALSE ELSE ack]

\* The branch of the alert effect that vibrates the device and raises the
\* system notification, taken on every evaluation that finds an emergency.
AlertEffectFires_OnEveryEmergency(aa, w, sd) == Emergency(w, sd)

\* The branch of the alert effect that vibrates the device and raises the
\* system notification: inside `if (emergency !== activeAlert)` and
\* `if (emergency)`.
AlertEffectFires(aa, w, sd) == Emergency(w, sd) # aa /\ Emergency(w, sd)

\* The alert effect leaving alarmAcknowledged alone when the alert rises.
AlertEffect_KeepsAckOnRise(aa, ack, w, sd) ==
    LET emergency == Emergency(w, sd)
    IN IF emergency # aa
       THEN [activeAlert |-> emergency, alarmAcknowledged |-> ack]
       ELSE [activeAlert |-> aa, alarmAcknowledged |-> ack]

\* The alert effect (deps [wardData, sensorData, activeAlert]) on the values
\* of one render: the state cells it leaves.
AlertEffect(aa, ack, w, sd) ==
    LET emergency == Emergency(w, sd)
    IN IF emergency # aa
       THEN [activeAlert |-> emergency,
             alarmAcknowledged |-> IF emergency THEN FALSE ELSE ack]
       ELSE [activeAlert |-> aa, alarmAcknowledged |-> ack]

\* The alarm control effect without the mute test.
AlarmControlEffect_IgnoresMute(a, aa, muted, ack, ok) ==
    IF aa /\ ~ack THEN play(a, ok) ELSE stop(a)

\* The alarm control effect (deps [activeAlert, isMuted, alarmAcknowledged]).
AlarmControlEffect(a, aa, muted, ack, ok) ==
    IF ShouldPlay(aa, muted, ack) THEN play(a, ok) ELSE stop(a)

\* ------------------------------------------------------------ telemetry sets

rNormal == Room(JBool(FALSE), JNum(0), JBool(FALSE))

rFall == Room(JBool(TRUE), JNum(0), JBool(FALSE))

rFallAcked == Room(JBool(TRUE), JNum(0), JBool(TRUE))

\* The room records the ward snapshots of the dashboard run are built from.
RoomValues == {rNormal, rFall, rFallAcked}

\* snapshot.val() || {}: no rooms at all, or every room with some record.
WardSnapshots == {<< >>} \cup [Rooms -> RoomValues]

\* /sensor_data: absent, or with a status string.
SensorSnapshots ==
    {[status |-> s] : s \in {JUndef, JStr(sNormal), JStr(sFallDown)}}

\* -------------------------------------------------------------------- state

VARIABLES
    loading,            \* useState(true)
    connected,          \* useState(false)
    error,              \* useState(null): "null" | "setup" | "auth"
    wardData,           \* useState({}): the last ward snapshot delivered
    sensorData,         \* useState({}): the last /sensor_data snapshot
    activeAlert,        \* useState(false)
    isMuted,            \* useState(false)
    alarmAcknowledged,  \* useState(false)
    alarm,              \* alarmRef.current
    rendered,           \* activeAlert, isMuted, alarmAcknowledged of the last commit
    dataDirty,          \* wardData or sensorData was replaced since the last commit
    unlockPc,           \* where the one _unlock() call is: "idle" | "resume" | "fbplay"
    listening,          \* the document click/keydown/touchend listeners are attached
    authPc,             \* signInAnonymously: "pending" | "done" (settled, or never called)
    dbWard,             \* hospital_system/wards/ward_A in the backend
    lastUnackCount,     \* observer: rooms in unacknowledged fall at the last evaluation
    mounted,            \* the App component is mounted
    subs,               \* active onValue subscriptions per backend path
    handles,            \* unsubscribeWards / Devices / Sensor hold a handle
    unlockCalls,        \* observer: _unlock() calls so far (0, 1, 2 for more)
    interacted,         \* observer: a click, key press or touch has happened
    sysAlertFired,      \* observer: the last step ran the vibrate/notification branch
    alerted,            \* observer: the alert() box the last step showed, or "none"
    dbDevices,          \* hospital_system/devices in the backend: config per device
    editingDevice,      \* useState(null): "null" or the device whose editor is open
    writes,             \* update() calls in flight
    audioReady          \* useState(false)

vars ==
    <<loading, connected, error, wardData, sensorData, activeAlert, isMuted,
      alarmAcknowledged, alarm, rendered, dataDirty, unlockPc, listening, authPc,
      dbWard, lastUnackCount, mounted, subs, handles, unlockCalls, interacted,
      sysAlertFired, alerted, dbDevices, editingDevice, writes, audioReady>>

\* The mount and its subscriptions.
lifeVars == <<mounted, subs, handles>>

\* The device management tab.
deviceVars == <<dbDevices, editingDevice, writes>>

\* The observers of the unlock.
obsVars == <<unlockCalls, interacted>>

\* A step that runs neither the system-alert branch nor alert().
Quiet == sysAlertFired' = FALSE /\ alerted' = "none"

\* The three cells the alarm control effect depends on.
Cells ==
    [activeAlert |-> activeAlert, isMuted |-> isMuted,
     alarmAcknowledged |-> alarmAcknowledged]

\* Nothing is waiting for a render: every effect has run on the current values.
Settled == ~dataDirty /\ rendered = Cells

\* Rooms of a snapshot in unacknowledged fall: in fall as the alert effect
\* sees it, with the stored acknowledged field not set.
UnackCount(w) ==
    Cardinality({r \in DOMAIN w : RoomFall(w[r]) /\ ~Truthy(w[r].acknowledged)})

\* ------------------------------------------------------------ subscriptions

\* No subscription on any of the three paths.
NoSubs == [wards |-> 0, devices |-> 0, sensor |-> 0]

\* The three closure variables of the subscription effect, all null.  A
\* variable holds "null", or the handle of a subscription that is "live", or
\* of one that has ended ("dead").
NoHandles == [wards |-> "null", devices |-> "null", sensor |-> "null"]

\* setupListeners() on the subscription counts: onValue on the ward tree, the
\* device tree and /sensor_data, in this order.  `k` is the number of
\* subscriptions made before a call of the SDK raises; 3 when none does.
setupListeners(s, k) ==
    [wards |-> s.wards + (IF k >= 1 THEN 1 ELSE 0),
     devices |-> s.devices + (IF k >= 2 THEN 1 ELSE 0),
     sensor |-> s.sensor + (IF k >= 3 THEN 1 ELSE 0)]

\* What setupListeners() leaves in the closure variables: each assignment
\* replaces the handle the variable held.
setupHandles(h, k) ==
    [wards |-> IF k >= 1 THEN "live" ELSE h.wards,
     devices |-> IF k >= 2 THEN "live" ELSE h.devices,
     sensor |-> IF k >= 3 THEN "live" ELSE h.sensor]

\* The cleanup of the subscription effect on the subscription counts: each
\* handle held is called, which ends the one subscription it belongs to.
Unsubscribe(s, h) ==
    [p \in DOMAIN s |-> IF h[p] = "live" THEN s[p] - 1 ELSE s[p]]

\* The handles after the cleanup called them.
UnsubscribeHandles(h) ==
    [p \in DOMAIN h |-> IF h[p] = "live" THEN "dead" ELSE h[p]]

\* ---------------------------------------------------------------- devices

Devices == {"dA", "dB"}

sNone == <<"n", "o", "n", "e">>

sUnassigned == <<"u", "n", "a", "s", "s", "i", "g", "n", "e", "d">>

sRoomPrefix == <<"r", "o", "o", "m", "_">>

Digits == <<"1", "2", "3", "4", "5", "6", "7", "8", "9">>

\* The key of room `r` under hospital_system/wards/ward_A: room_<number>.
RoomKey(r) == sRoomPrefix \o <<Digits[r]>>

\* String.prototype.startsWith.
startsWith(str, prefix) ==
    Len(str) >= Len(prefix) /\ SubSeq(str, 1, Len(prefix)) = prefix

\* String.prototype.trim on the space character.
RECURSIVE trimStart(_)
trimStart(str) ==
    IF str # << >> /\ Head(str) = " " THEN trimStart(Tail(str)) ELSE str

RECURSIVE trimEnd(_)
trimEnd(str) ==
    IF str # << >> /\ str[Len(str)] = " "
    THEN trimEnd(SubSeq(str, 1, Len(str) - 1))
    ELSE str

trim(str) == trimEnd(trimStart(str))

\* normalizedRoom of handleSaveConfig: the trimmed input, with room_ put in
\* front unless it starts with it in any letter case.
normalizedRoom(roomId) ==
    IF startsWith(toLowerCase(trim(roomId)), sRoomPrefix)
    THEN trim(roomId)
    ELSE sRoomPrefix \o trim(roomId)

\* A device's config: room_id and assigned_room, each a JavaScript value
\* (undefined when the field is absent).
DeviceConfig(roomId, assignedRoom) == [room_id |-> roomId, assigned_room |-> assignedRoom]

\* isPaired of the devices tab: `room && room !== 'none'`.
isPaired(room) == Truthy(room) /\ ~StrictEqStr(room, sNone)

\* What the Save field of the editor can hold when Save is clicked: nothing,
\* a room number, a room number after a space, or a whole room key.
TypedRoomIds ==
    {<< >>} \cup {<<Digits[r]>> : r \in Rooms}
            \cup {<<" ", Digits[r]>> : r \in Rooms}
            \cup {RoomKey(r) : r \in Rooms}

\* The configs a device is found with when the dashboard connects: never
\* assigned (no field), or marked unpaired by either sentinel.
RegisteredConfigs ==
    {DeviceConfig(v, v) : v \in {JUndef, JStr(sNone), JStr(sUnassigned)}}

\* ------------------------------------------------------------------- mount

\* What every specification starts with besides the dashboard's own cells.
InitRest ==
    /\ mounted = TRUE
    /\ unlockCalls = 0
    /\ interacted = FALSE
    /\ sysAlertFired = FALSE
    /\ alerted = "none"
    /\ editingDevice = "null"
    /\ writes = {}
    /\ audioReady = FALSE

\* The dashboard after its first commit and its mount effects: the player is
\* constructed and initialised, the alert effect found no emergency, the
\* control effect called stop(), the unlock listeners are attached.  With a
\* placeholder API key the listeners are set up at once and the setup error
\* is shown; otherwise the anonymous sign-in is in flight.
Init ==
    /\ wardData = << >>
    /\ dbWard = << >>
    /\ sensorData = [status |-> JUndef]
    /\ activeAlert = FALSE
    /\ isMuted = FALSE
    /\ alarmAcknowledged = FALSE
    /\ alarm = stop(NewAlarmSound(TRUE))
    /\ rendered = [activeAlert |-> FALSE, isMuted |-> FALSE, alarmAcknowledged |-> FALSE]
    /\ dataDirty = FALSE
    /\ unlockPc = "idle"
    /\ listening = TRUE
    /\ connected = FALSE
    /\ lastUnackCount = 0
    /\ \/ /\ authPc = "done"
          /\ subs = setupListeners(NoSubs, 3) /\ handles = setupHandles(NoHandles, 3)
          /\ error = "setup" /\ loading = FALSE
       \/ /\ authPc = "pending"
          /\ subs = NoSubs /\ handles = NoHandles
          /\ error = "null" /\ loading = TRUE
    /\ InitRest
    /\ dbDevices = [d \in Devices |-> DeviceConfig(JStr(sNone), JStr(sNone))]

\* ----------------------------------------------------------------- actions

\* signInAnonymously settles: setupListeners() either way; a failure also
\* records the error and leaves the loading screen.
SignInSettled ==
    /\ authPc = "pending"
    /\ authPc' = "done"
    /\ subs' = setupListeners(subs, 3)
    /\ handles' = setupHandles(handles, 3)
    /\ \E ok \in BOOLEAN :
          /\ error' = IF ok \/ ~mounted THEN error ELSE "auth"
          /\ loading' = IF ok \/ ~mounted THEN loading ELSE FALSE
    /\ UNCHANGED <<audioReady, connected, wardData, sensorData, activeAlert, isMuted,
                   alarmAcknowledged, alarm, rendered, dataDirty, unlockPc,
                   listening, dbWard, lastUnackCount, mounted, deviceVars, obsVars>>
    /\ Quiet

\* signInAnonymously resolves and a call of the SDK inside the success handler
\* raises after `k` subscriptions were made: the .catch of the chain runs
\* next and calls setupListeners() again; when that call raises too (after
\* `k2` subscriptions) the handler ends there, otherwise it records the
\* authentication error and leaves the loading screen.
SignInHandlerRaises ==
    /\ authPc = "pending"
    /\ authPc' = "done"
    /\ \E k \in 0..2, k2 \in 0..3 :
          /\ subs' = setupListeners(setupListeners(subs, k), k2)
          /\ handles' = setupHandles(setupHandles(handles, k), k2)
          /\ error' = IF k2 = 3 /\ mounted THEN "auth" ELSE error
          /\ loading' = IF k2 = 3 /\ mounted THEN FALSE ELSE loading
    /\ UNCHANGED <<audioReady, connected, wardData, sensorData, activeAlert, isMuted,
                   alarmAcknowledged, alarm, rendered, dataDirty, unlockPc,
                   listening, dbWard, lastUnackCount, mounted, deviceVars, obsVars>>
    /\ Quiet

\* A ward error callback that also drops the last-known ward data.
OnWardError_ClearsData ==
    /\ subs.wards > 0
    /\ mounted
    /\ error' = "lost"
    /\ connected' = FALSE
    /\ wardData' = << >>
    /\ dataDirty' = TRUE
    /\ subs' = [subs EXCEPT !.wards = 0]
    /\ handles' = [handles EXCEPT !.wards = IF @ = "live" THEN "dead" ELSE @]
    /\ UNCHANGED <<audioReady, loading, sensorData, activeAlert, isMuted,
                   alarmAcknowledged, alarm, rendered, unlockPc,
                   listening, authPc, dbWard, lastUnackCount, mounted,
                   deviceVars, obsVars>>
    /\ Quiet

\* The error callback of the ward onValue: the backend has cancelled the
\* listeners of the path (permission denied or lost), every one of them
\* reports it.
OnWardError ==
    /\ subs.wards > 0
    /\ mounted
    /\ error' = "lost"
    /\ connected' = FALSE
    /\ subs' = [subs EXCEPT !.wards = 0]
    /\ handles' = [handles EXCEPT !.wards = IF @ = "live" THEN "dead" ELSE @]
    /\ UNCHANGED <<audioReady, loading, wardData, sensorData, activeAlert, isMuted,
                   alarmAcknowledged, alarm, rendered, dataDirty, unlockPc,
                   listening, authPc, dbWard, lastUnackCount, mounted,
                   deviceVars, obsVars>>
    /\ Quiet

\* The error callback of the device onValue: console.error.
OnDeviceError ==
    /\ subs.devices > 0
    /\ mounted
    /\ subs' = [subs EXCEPT !.devices = 0]
    /\ handles' = [handles EXCEPT !.devices = IF @ = "live" THEN "dead" ELSE @]
    /\ UNCHANGED <<audioReady, loading, connected, error, wardData, sensorData, activeAlert,
                   isMuted, alarmAcknowledged, alarm, rendered, dataDirty,
                   unlockPc, listening, authPc, dbWard, lastUnackCount, mounted,
                   deviceVars, obsVars>>
    /\ Quiet

\* The dashboard unmounts: the cleanups of the mount effects run, dispose()
\* of the player, the unsubscribe handles held, the removal of the unlock
\* listeners.  What is in flight (the sign-in, an unlock) goes on.
Unmount ==
    /\ mounted
    /\ mounted' = FALSE
    /\ alarm' = dispose(alarm)
    /\ subs' = Unsubscribe(subs, handles)
    /\ handles' = UnsubscribeHandles(handles)
    /\ listening' = FALSE
    /\ UNCHANGED <<audioReady, loading, connected, error, wardData, sensorData, activeAlert,
                   isMuted, alarmAcknowledged, rendered, dataDirty, unlockPc,
                   authPc, dbWard, lastUnackCount, deviceVars, obsVars>>
    /\ Quiet

\* A device or another station writes the ward tree and the ward onValue
\* callback delivers the new value of the tree.
OnWardValue ==
    /\ subs.wards > 0
    /\ mounted
    /\ \E data \in WardSnapshots : dbWard' = data /\ wardData' = data
    /\ connected' = TRUE
    /\ error' = "null"
    /\ loading' = FALSE
    /\ dataDirty' = TRUE
    /\ UNCHANGED <<sensorData, activeAlert, isMuted, alarmAcknowledged, alarm,
                   rendered, unlockPc, listening, authPc, lifeVars, deviceVars, obsVars,
                   lastUnackCount, audioReady>>
    /\ Quiet

\* The /sensor_data onValue callback.
OnSensorValue ==
    /\ subs.sensor > 0
    /\ mounted
    /\ \E sd \in SensorSnapshots : sensorData' = sd
    /\ dataDirty' = TRUE
    /\ UNCHANGED <<audioReady, loading, connected, error, wardData, activeAlert, isMuted,
                   alarmAcknowledged, alarm, rendered, unlockPc, listening,
                   authPc, lifeVars, deviceVars, obsVars, dbWard, lastUnackCount>>
    /\ Quiet

\* The alert effect runs in this commit.
AlertRuns == dataDirty \/ activeAlert # rendered.activeAlert

\* The alarm control effect runs in this commit.
CtrlRuns == Cells # rendered

\* One commit: the effects whose dependencies changed run in declaration
\* order on the values of this render; what they set is for the next one.
Render ==
    /\ mounted
    /\ dataDirty \/ Cells # rendered
    /\ LET res == IF AlertRuns
                  THEN AlertEffect(activeAlert, alarmAcknowledged, wardData, sensorData)
                  ELSE [activeAlert |-> activeAlert,
                        alarmAcknowledged |-> alarmAcknowledged]
       IN /\ activeAlert' = res.activeAlert
          /\ alarmAcknowledged' = res.alarmAcknowledged
    /\ lastUnackCount' = IF AlertRuns THEN UnackCount(wardData) ELSE lastUnackCount
    /\ sysAlertFired' = (AlertRuns /\ AlertEffectFires(activeAlert, wardData, sensorData))
    /\ \E ok \in BOOLEAN :
          alarm' = IF CtrlRuns
                   THEN AlarmControlEffect(alarm, activeAlert, isMuted,
                                           alarmAcknowledged, ok)
                   ELSE alarm
    /\ rendered' = Cells
    /\ dataDirty' = FALSE
    /\ UNCHANGED <<audioReady, loading, connected, error, wardData, sensorData, isMuted,
                   unlockPc, listening, authPc, lifeVars, deviceVars, obsVars, dbWard>>
    /\ alerted' = "none"

\* The callback init() was given, called by _unlock at its successful end:
\* setAudioReady(unlocked).
onUnlockCallback(ready, a) == IF a.isUnlocked THEN TRUE ELSE ready

\* unlockAudio's `_unlock().then(() => setAudioReady(true))`: runs when the
\* promise of _unlock resolves, which it does however _unlock ended.
unlockAudioThen(ready) == TRUE

\* audioReady after a step of the _unlock call that unlockAudio made: `u` is
\* the player and the position the step leaves.  Nothing is set before the
\* call has ended, nor on an unmounted component.
AudioReadyAfter(ready, u) ==
    IF u.pc = "idle" /\ mounted
    THEN unlockAudioThen(onUnlockCallback(ready, u.alarm))
    ELSE ready

\* unlockHandler leaving the three listeners attached.
UnlockHandler_KeepsListening(a) ==
    /\ listening' = listening
    /\ unlockCalls' = IF unlockCalls < 2 THEN unlockCalls + 1 ELSE 2
    /\ \E c \in {"running", "suspended", "throws"}, synth \in BOOLEAN :
          LET u == UnlockBegin(a, c, synth)
          IN /\ alarm' = u.alarm /\ unlockPc' = u.pc
             /\ audioReady' = AudioReadyAfter(audioReady, u)

\* unlockHandler, the document listener every first click, key press or touch
\* reaches: _unlock() is started on the player `a` and the listeners are
\* removed.  Later interactions find no listener.
UnlockHandler(a) ==
    IF listening
    THEN /\ listening' = FALSE
         /\ unlockCalls' = IF unlockCalls < 2 THEN unlockCalls + 1 ELSE 2
         /\ \E c \in {"running", "suspended", "throws"}, synth \in BOOLEAN :
               LET u == UnlockBegin(a, c, synth)
               IN /\ alarm' = u.alarm /\ unlockPc' = u.pc
                  /\ audioReady' = AudioReadyAfter(audioReady, u)
    ELSE /\ alarm' = a
         /\ UNCHANGED <<unlockPc, listening, unlockCalls, audioReady>>

\* A key press or a touch or click outside the buttons.
Interaction ==
    /\ mounted
    /\ listening
    /\ UnlockHandler(alarm)
    /\ UNCHANGED <<loading, connected, error, wardData, sensorData, activeAlert,
                   isMuted, alarmAcknowledged, rendered, dataDirty, authPc,
                   lifeVars, deviceVars, dbWard, lastUnackCount>>
    /\ interacted' = TRUE
    /\ Quiet

\* A mute button that also marks the alarm acknowledged.
MuteClick_AlsoAcknowledges ==
    /\ mounted
    /\ ~loading
    /\ isMuted' = ~rendered.isMuted
    /\ alarmAcknowledged' = TRUE
    /\ UnlockHandler(alarm)
    /\ UNCHANGED <<loading, connected, error, wardData, sensorData, activeAlert,
                   rendered, dataDirty, authPc, lifeVars, deviceVars,
                   dbWard, lastUnackCount>>
    /\ interacted' = TRUE
    /\ Quiet

\* The mute button: setIsMuted(!isMuted) with the isMuted of the last render.
MuteClick ==
    /\ mounted
    /\ ~loading
    /\ isMuted' = ~rendered.isMuted
    /\ UnlockHandler(alarm)
    /\ UNCHANGED <<loading, connected, error, wardData, sensorData, activeAlert,
                   alarmAcknowledged, rendered, dataDirty, authPc, lifeVars, deviceVars,
                   dbWard, lastUnackCount>>
    /\ interacted' = TRUE
    /\ Quiet

\* The ACKNOWLEDGE button, shown while the banner is up and not acknowledged:
\* setAlarmAcknowledged(true); alarmRef.current?.stop().
AckClick ==
    /\ mounted
    /\ ~loading
    /\ rendered.activeAlert /\ ~rendered.alarmAcknowledged
    /\ alarmAcknowledged' = TRUE
    /\ UnlockHandler(stop(alarm))
    /\ UNCHANGED <<loading, connected, error, wardData, sensorData, activeAlert,
                   isMuted, rendered, dataDirty, authPc, lifeVars, deviceVars, dbWard,
                   lastUnackCount>>
    /\ interacted' = TRUE
    /\ Quiet

\* `await this.audioCtx.resume()` of _unlock settles.
UnlockResumeSettled ==
    /\ unlockPc = "resume"
    /\ \E r \in {"running", "suspended"}, synth \in BOOLEAN :
          LET u == UnlockAfterResume(alarm, r, synth)
          IN /\ alarm' = u.alarm /\ unlockPc' = u.pc
             /\ audioReady' = AudioReadyAfter(audioReady, u)
    /\ UNCHANGED <<loading, connected, error, wardData, sensorData, activeAlert,
                   isMuted, alarmAcknowledged, rendered, dataDirty, listening,
                   authPc, lifeVars, deviceVars, obsVars, dbWard, lastUnackCount>>
    /\ Quiet

\* `await this.fallbackAudio.play()` of _unlock settles.
UnlockFallbackSettled ==
    /\ unlockPc = "fbplay"
    /\ \E ok \in BOOLEAN :
          LET u == [alarm |-> UnlockAfterFallback(alarm, ok), pc |-> "idle"]
          IN /\ alarm' = u.alarm /\ unlockPc' = u.pc
             /\ audioReady' = AudioReadyAfter(audioReady, u)
    /\ UNCHANGED <<loading, connected, error, wardData, sensorData, activeAlert,
                   isMuted, alarmAcknowledged, rendered, dataDirty, listening,
                   authPc, lifeVars, deviceVars, obsVars, dbWard, lastUnackCount>>
    /\ Quiet

\* The setInterval timer fires: playOnce.
TimerTick ==
    /\ alarm.timers > 0
    /\ alarm' = playOnce(alarm)
    /\ alarm' # alarm
    /\ UNCHANGED <<audioReady, loading, connected, error, wardData, sensorData, activeAlert,
                   isMuted, alarmAcknowledged, rendered, dataDirty, unlockPc,
                   listening, authPc, lifeVars, deviceVars, obsVars, dbWard, lastUnackCount>>
    /\ Quiet

\* The 2-second buffer a playOnce started comes to its end.
SourceEnded ==
    /\ alarm.source
    /\ alarm' = [alarm EXCEPT !.source = FALSE]
    /\ UNCHANGED <<audioReady, loading, connected, error, wardData, sensorData, activeAlert,
                   isMuted, alarmAcknowledged, rendered, dataDirty, unlockPc,
                   listening, authPc, lifeVars, deviceVars, obsVars, dbWard, lastUnackCount>>
    /\ Quiet

\* The browser suspends the running audio context (an interruption, a
\* backgrounded tab): what it plays falls silent.
ContextSuspended ==
    /\ alarm.audioCtx = "running"
    /\ unlockPc = "idle"
    /\ alarm' = [alarm EXCEPT !.audioCtx = "suspended", !.source = FALSE]
    /\ UNCHANGED <<audioReady, loading, connected, error, wardData, sensorData, activeAlert,
                   isMuted, alarmAcknowledged, rendered, dataDirty, unlockPc,
                   listening, authPc, lifeVars, deviceVars, obsVars, dbWard, lastUnackCount>>
    /\ Quiet

\* The looping clip plays on from its start.
ClipAdvance ==
    /\ ~alarm.fallbackAudio.paused
    /\ alarm.fallbackAudio.currentTime = 0
    /\ alarm' = [alarm EXCEPT !.fallbackAudio.currentTime = 1]
    /\ UNCHANGED <<audioReady, loading, connected, error, wardData, sensorData, activeAlert,
                   isMuted, alarmAcknowledged, rendered, dataDirty, unlockPc,
                   listening, authPc, lifeVars, deviceVars, obsVars, dbWard, lastUnackCount>>
    /\ Quiet

Next ==
    \/ SignInSettled
    \/ OnWardValue
    \/ OnSensorValue
    \/ Render
    \/ Interaction
    \/ MuteClick
    \/ AckClick
    \/ UnlockResumeSettled
    \/ UnlockFallbackSettled
    \/ TimerTick
    \/ SourceEnded
    \/ ClipAdvance
    \/ ContextSuspended

Spec == Init /\ [][Next]_vars

\* ------------------------------------- the mount, from first commit to unmount

\* The dashboard from its mount to after its unmount: every outcome of the
\* sign-in, the subscriptions and their errors, the first interaction and its
\* unlock, the commits, and the unmount at any point.
NextLife ==
    \/ SignInSettled
    \/ SignInHandlerRaises
    \/ OnWardValue
    \/ OnWardError
    \/ OnDeviceError
    \/ Render
    \/ Interaction
    \/ UnlockResumeSettled
    \/ UnlockFallbackSettled
    \/ Unmount

SpecLife == Init /\ [][NextLife]_vars

\* ------------------------------------------------------ the devices tab

\* The frame of the device actions: everything but the devices tab.
dashboardVars ==
    <<loading, connected, error, wardData, sensorData, activeAlert, isMuted,
      alarmAcknowledged, alarm, rendered, dataDirty, unlockPc, listening, authPc,
      dbWard, lastUnackCount, lifeVars, obsVars, audioReady>>

\* An update() in flight: which handler made it, for which device, with
\* which room string.
Write(kind, d, r) == [kind |-> kind, device |-> d, room |-> r]

\* What a confirmed write leaves in a device's config: quick-assign and
\* unlink set assigned_room, save config sets room_id and assigned_room.
Applied(cfg, w) ==
    IF w.kind = "save"
    THEN DeviceConfig(JStr(w.room), JStr(w.room))
    ELSE [cfg EXCEPT !.assigned_room = JStr(w.room)]

\* The alert() a failed write ends in: handleAssignRoom and handleSaveConfig
\* show one, handleUnlink only logs.
FailureAlert(w) ==
    CASE w.kind = "assign" -> "assign"
      [] w.kind = "save" -> "save"
      [] OTHER -> "none"

\* pendingDevices of the devices tab: the devices that are not paired.
pendingDevices == {d \in Devices : ~isPaired(dbDevices[d].assigned_room)}

\* roomPairings[key] of the devices tab: the paired devices whose
\* config.assigned_room is `key`.
PairedTo(key) ==
    {d \in Devices : /\ isPaired(dbDevices[d].assigned_room)
                     /\ dbDevices[d].assigned_room = JStr(key)}

\* pairedRooms: the keys of roomPairings.
pairedRooms ==
    {dbDevices[d].assigned_room.s : d \in Devices \ pendingDevices}

\* The edit button of a device, or Manual Pair: setEditingDevice(id).
OpenEditor ==
    /\ mounted /\ ~loading
    /\ \E d \in Devices : editingDevice' = d
    /\ editingDevice' # editingDevice
    /\ UNCHANGED <<dashboardVars, dbDevices, writes>>
    /\ Quiet

\* Cancel in the editor: setEditingDevice(null).
CancelEdit ==
    /\ mounted /\ ~loading
    /\ editingDevice # "null"
    /\ editingDevice' = "null"
    /\ UNCHANGED <<dashboardVars, dbDevices, writes>>
    /\ Quiet

\* Save in the editor: handleSaveConfig up to its await.  `roomId` is what
\* the room field holds; the empty string ends in the alert and no write.
SaveClick ==
    /\ mounted /\ ~loading
    /\ editingDevice # "null"
    /\ \E roomId \in TypedRoomIds :
          IF ~Truthy(JStr(roomId))
          THEN alerted' = "empty" /\ writes' = writes
          ELSE /\ alerted' = "none"
               /\ writes' = writes \cup
                     {Write("save", editingDevice, normalizedRoom(roomId))}
    /\ Cardinality(writes') <= MaxWrites
    /\ sysAlertFired' = FALSE
    /\ UNCHANGED <<dashboardVars, dbDevices, editingDevice>>

\* The room select of a pending device: handleAssignRoom up to its await.
AssignRoomChange ==
    /\ mounted /\ ~loading
    /\ \E d \in pendingDevices, r \in DOMAIN wardData :
          /\ editingDevice # d
          /\ writes' = writes \cup {Write("assign", d, RoomKey(r))}
    /\ Cardinality(writes') <= MaxWrites
    /\ UNCHANGED <<dashboardVars, dbDevices, editingDevice>>
    /\ Quiet

\* "Unlink all from room": window.confirm for the room, then handleUnlink
\* for each device of the room, which asks window.confirm again; `S` is the
\* devices whose question was answered yes (none when the first was not).
UnlinkAllClick ==
    /\ mounted /\ ~loading
    /\ \E roomKey \in pairedRooms :
          \E S \in SUBSET PairedTo(roomKey) :
              writes' = writes \cup {Write("unlink", d, sNone) : d \in S}
    /\ Cardinality(writes') <= MaxWrites
    /\ UNCHANGED <<dashboardVars, dbDevices, editingDevice>>
    /\ Quiet

\* An update() resolves: the backend holds the new config; after a save the
\* editor is closed.
WriteConfirmed ==
    /\ \E w \in writes :
          /\ writes' = writes \ {w}
          /\ dbDevices' = [dbDevices EXCEPT ![w.device] = Applied(@, w)]
          /\ editingDevice' = IF w.kind = "save" /\ mounted THEN "null" ELSE editingDevice
    /\ UNCHANGED dashboardVars
    /\ Quiet

\* An update() rejects: the catch of the handler.
WriteFailed ==
    /\ \E w \in writes :
          /\ writes' = writes \ {w}
          /\ alerted' = FailureAlert(w)
    /\ sysAlertFired' = FALSE
    /\ UNCHANGED <<dashboardVars, dbDevices, editingDevice>>

\* The dashboard connected, on its devices tab, every room at rest.
InitDevices ==
    /\ wardData = [r \in Rooms |-> rNormal]
    /\ dbWard = wardData
    /\ sensorData = [status |-> JUndef]
    /\ dataDirty = FALSE
    /\ activeAlert = FALSE
    /\ isMuted = FALSE
    /\ alarmAcknowledged = FALSE
    /\ alarm = stop(NewAlarmSound(TRUE))
    /\ rendered = [activeAlert |-> FALSE, isMuted |-> FALSE, alarmAcknowledged |-> FALSE]
    /\ unlockPc = "idle"
    /\ listening = TRUE
    /\ connected = TRUE
    /\ lastUnackCount = 0
    /\ authPc = "done"
    /\ subs = setupListeners(NoSubs, 3)
    /\ handles = setupHandles(NoHandles, 3)
    /\ error = "null"
    /\ loading = FALSE
    /\ InitRest
    /\ dbDevices \in [Devices -> RegisteredConfigs]

NextDevices ==
    \/ OpenEditor
    \/ CancelEdit
    \/ SaveClick
    \/ AssignRoomChange
    \/ UnlinkAllClick
    \/ WriteConfirmed
    \/ WriteFailed

SpecDevices == InitDevices /\ [][NextDevices]_vars

\* ------------------------------------------------- the player on its own

\* One AlarmSound driven through its methods in any order, as any caller
\* may: play(), stop(), _unlock() (one call in flight at a time), and the
\* browser's timer, buffer and clip events.
PlayCall ==
    /\ \E ok \in BOOLEAN : alarm' = play(alarm, ok)
    /\ UNCHANGED <<audioReady, loading, connected, error, wardData, sensorData, activeAlert,
                   isMuted, alarmAcknowledged, rendered, dataDirty, unlockPc,
                   listening, authPc, lifeVars, deviceVars, obsVars, dbWard, lastUnackCount>>
    /\ Quiet

StopCall ==
    /\ alarm' = stop(alarm)
    /\ UNCHANGED <<audioReady, loading, connected, error, wardData, sensorData, activeAlert,
                   isMuted, alarmAcknowledged, rendered, dataDirty, unlockPc,
                   listening, authPc, lifeVars, deviceVars, obsVars, dbWard, lastUnackCount>>
    /\ Quiet

DisposeCall ==
    /\ alarm' = dispose(alarm)
    /\ UNCHANGED <<audioReady, loading, connected, error, wardData, sensorData, activeAlert,
                   isMuted, alarmAcknowledged, rendered, dataDirty, unlockPc,
                   listening, authPc, lifeVars, deviceVars, obsVars, dbWard, lastUnackCount>>
    /\ Quiet

UnlockCall ==
    /\ unlockPc = "idle"
    /\ \E c \in {"running", "suspended", "throws"}, synth \in BOOLEAN :
          LET u == UnlockBegin(alarm, c, synth)
          IN /\ alarm' = u.alarm /\ unlockPc' = u.pc
             /\ audioReady' = AudioReadyAfter(audioReady, u)
    /\ UNCHANGED <<loading, connected, error, wardData, sensorData, activeAlert,
                   isMuted, alarmAcknowledged, rendered, dataDirty, listening,
                   authPc, lifeVars, deviceVars, interacted, dbWard, lastUnackCount>>
    /\ unlockCalls' = IF unlockCalls < 2 THEN unlockCalls + 1 ELSE 2
    /\ Quiet

InitPlayer ==
    /\ \E hasFallback \in BOOLEAN : alarm = NewAlarmSound(hasFallback)
    /\ unlockPc = "idle"
    /\ wardData = << >>
    /\ dbWard = << >>
    /\ sensorData = [status |-> JUndef]
    /\ activeAlert = FALSE
    /\ isMuted = FALSE
    /\ alarmAcknowledged = FALSE
    /\ rendered = [activeAlert |-> FALSE, isMuted |-> FALSE, alarmAcknowledged |-> FALSE]
    /\ dataDirty = FALSE
    /\ listening = FALSE
    /\ connected = FALSE
    /\ lastUnackCount = 0
    /\ authPc = "pending"
    /\ subs = NoSubs
    /\ handles = NoHandles
    /\ error = "null"
    /\ loading = TRUE
    /\ InitRest
    /\ dbDevices = [d \in Devices |-> DeviceConfig(JStr(sNone), JStr(sNone))]

NextPlayer ==
    \/ PlayCall
    \/ StopCall
    \/ DisposeCall
    \/ UnlockCall
    \/ UnlockResumeSettled
    \/ UnlockFallbackSettled
    \/ TimerTick
    \/ SourceEnded
    \/ ClipAdvance
    \/ ContextSuspended

SpecPlayer == InitPlayer /\ [][NextPlayer]_vars

\* --------------------------------------- the alert evaluation on its own

rMotion == Room(JUndef, JNum(1), JUndef)

\* What live_status.fall_detected arrives as: booleans, their string forms in
\* either case, numbers, the empty string, or nothing.
FallDetectedValues ==
    {JBool(TRUE), JBool(FALSE), JStr(sTrue), JStr(sFalse), JStr(sFALSE),
     JNum(1), JNum(0), JStr(<< >>), JUndef}

EvalRoomValues ==
    {Room(fd, mv, JBool(FALSE)) : fd \in FallDetectedValues, mv \in {JUndef, JNum(0), JNum(1)}}

EvalSensorSnapshots ==
    {[status |-> s] :
        s \in {JUndef, JStr(<< >>), JStr(sNormal), JStr(sONLINE), JStr(sFallDown),
               JStr(sFallDetected), JStr(sFall), JStr(sEmergency), JStr(sGarbled)}}

\* The mounted dashboard with one ward snapshot and one sensor snapshot
\* delivered and not yet rendered.
InitAlert ==
    /\ wardData \in [Rooms -> EvalRoomValues]
    /\ dbWard = wardData
    /\ sensorData \in EvalSensorSnapshots
    /\ dataDirty = TRUE
    /\ activeAlert = FALSE
    /\ isMuted = FALSE
    /\ alarmAcknowledged = FALSE
    /\ alarm = stop(NewAlarmSound(TRUE))
    /\ rendered = [activeAlert |-> FALSE, isMuted |-> FALSE, alarmAcknowledged |-> FALSE]
    /\ unlockPc = "idle"
    /\ listening = TRUE
    /\ connected = TRUE
    /\ lastUnackCount = 0
    /\ authPc = "done"
    /\ subs = setupListeners(NoSubs, 3)
    /\ handles = setupHandles(NoHandles, 3)
    /\ error = "null"
    /\ loading = FALSE
    /\ InitRest
    /\ dbDevices = [d \in Devices |-> DeviceConfig(JStr(sNone), JStr(sNone))]

\* The commits that evaluate the snapshots until nothing is left to render.
NextAlert == Render

SpecAlert == InitAlert /\ [][NextAlert]_vars

\* ------------------------------------------------- the spec's own notions

\* The tolerant boolean parse of the specification: "true" and "false" in any
\* letter case mean true and false, every other value follows truthiness.
CoerceBool(v) ==
    IF v.t = "str" /\ toLowerCase(v.s) = sTrue THEN TRUE
    ELSE IF v.t = "str" /\ toLowerCase(v.s) = sFalse THEN FALSE
    ELSE Truthy(v)

\* The canonical status rule of the specification: absent or empty is not
\* alarming, "normal" and "online" in any letter case are not, anything else is.
IsAlarming(v) ==
    /\ v.t = "str"
    /\ v.s # << >>
    /\ toLowerCase(v.s) \notin {sLowerNormal, sLowerOnline}

\* A room in unacknowledged fall.
InEmergency(room) == RoomFall(room) /\ ~Truthy(room.acknowledged)

\* ------------------------------------------------------------------ claims

\* C1: once the alarm control effect has run on the current values, the
\* player is Playing exactly when activeAlert is true, isMuted is false and
\* alarmAcknowledged is false; in every other combination it is stopped.
C1_PlayingIffDrivingCondition ==
    Settled => (alarm.isPlaying <=> (activeAlert /\ ~isMuted /\ ~alarmAcknowledged))

C1_Witness ==
    /\ Settled
    /\ alarm.isPlaying
    /\ activeAlert /\ ~isMuted /\ ~alarmAcknowledged

\* C2: an evaluation that finds more rooms in unacknowledged fall than the
\* previous evaluation did clears alarmAcknowledged.
C2_CountIncreaseClearsAck ==
    [][(Render /\ AlertRuns /\ UnackCount(wardData) > lastUnackCount)
          => ~alarmAcknowledged']_vars

\* C3: an evaluation in which the number of rooms in unacknowledged fall
\* stays equal or decreases never clears alarmAcknowledged.
C3_NoClearUnlessIncrease ==
    [][(Render /\ AlertRuns /\ UnackCount(wardData) <= lastUnackCount
          /\ alarmAcknowledged) => alarmAcknowledged']_vars

\* C3 on the transitions it names (1 to 1, 2 to 1): an evaluation in which
\* the number of rooms in unacknowledged fall was at least one at the previous
\* evaluation and stays equal or decreases never clears alarmAcknowledged.
C3_NoClearWhileIncidentKnown ==
    [][(Render /\ AlertRuns /\ lastUnackCount >= 1
          /\ UnackCount(wardData) <= lastUnackCount /\ alarmAcknowledged)
          => alarmAcknowledged']_vars

\* Staff acknowledged with two rooms in fall; a snapshot with one of them
\* left is waiting for its evaluation.
C3_Witness ==
    /\ dataDirty
    /\ alarmAcknowledged /\ rendered.alarmAcknowledged
    /\ lastUnackCount = 2
    /\ UnackCount(wardData) = 1

\* C4: the alarm plays only while some room is in fall with its stored
\* acknowledged field false.
C4_PlaysOnlyForUnackedRoom ==
    (Settled /\ alarm.isPlaying) => \E r \in DOMAIN wardData : InEmergency(wardData[r])

\* C5: with no room in fall, the sensor status raises the alert exactly when
\* it is non-empty and its lower-case form is neither "normal" nor "online".
C5_StatusAlarmingByExclusion ==
    (Settled /\ \A r \in DOMAIN wardData : ~RoomFall(wardData[r]))
        => (activeAlert <=> IsAlarming(sensorData.status))

\* C6: with no other fall indicator, the alert is raised exactly when some
\* room's fall_detected is true after the tolerant boolean parse.
C6_FallDetectedCoerced ==
    (/\ Settled
     /\ ~SensorFall(sensorData)
     /\ \A r \in DOMAIN wardData : ~GreaterThanZero(wardData[r].motion_val))
        => (activeAlert <=> \E r \in DOMAIN wardData : CoerceBool(wardData[r].fall_detected))

C8_AckWritesBackend ==
    [][AckClick => \A r \in DOMAIN dbWard :
                      InEmergency(dbWard[r]) => Truthy(dbWard'[r].acknowledged)]_vars

\* C9: play() on a player that is already Playing changes nothing: no second
\* timer, no restart of the clip, the same state after as before.
C9_PlayWhilePlayingNoOp ==
    [][(PlayCall /\ alarm.isPlaying) => alarm' = alarm]_vars

\* Playing on the synthesized path with its timer armed, or on the clip
\* part-way through: play() can be called again on either.
C9_Witness ==
    /\ alarm.isPlaying
    /\ alarm.timers = 1
    /\ alarm.intervalId # 0
    /\ alarm.source

\* C10: stop() in any state leaves isPlaying false, no timer armed, the clip
\* paused at position 0; a timer tick after it emits nothing, and a second
\* stop() changes nothing.
C10_StopSilences ==
    [][StopCall =>
          /\ ~alarm'.isPlaying
          /\ alarm'.intervalId = 0
          /\ alarm'.timers = 0
          /\ alarm'.fallbackAudio.exists =>
                (alarm'.fallbackAudio.paused /\ alarm'.fallbackAudio.currentTime = 0)
          /\ playOnce(alarm') = alarm'
          /\ stop(alarm') = alarm']_vars

\* Stopped while the synthesized siren was sounding: the player is idle, no
\* timer is left, the buffer already started is still ringing out.
C10_Witness ==
    /\ ~alarm.isPlaying
    /\ alarm.timers = 0
    /\ alarm.intervalId = 0
    /\ alarm.source
    /\ alarm.audioCtx = "running"

\* C11: dispose() in any player state raises nothing, leaves the player not
\* Playing with no timer armed and the audio context released, and a second
\* dispose() changes nothing.
C11_DisposeReleases ==
    [][DisposeCall =>
          /\ ~disposeRaises(alarm)
          /\ ~alarm'.isPlaying
          /\ alarm'.intervalId = 0 /\ alarm'.timers = 0
          /\ alarm'.audioCtx \in {"null", "closed"}
          /\ ~disposeRaises(alarm')
          /\ dispose(alarm') = alarm']_vars

\* Disposed while the unlock was waiting for the fallback clip.
C11_Witness ==
    /\ alarm.audioCtx = "closed"
    /\ unlockPc = "fbplay"
    /\ ~alarm.isPlaying /\ alarm.timers = 0

\* C12: an unlock attempt that ended with the player still Locked leaves the
\* interaction listeners in place, so the next interaction starts another
\* attempt.
C12_FailedUnlockRetried ==
    (mounted /\ interacted /\ unlockPc = "idle" /\ ~alarm.isUnlocked) => listening

\* C13: no unlock starts before an interaction, the first interaction starts
\* one, and later interactions start no second one.
C13_UnlockStartedOnce ==
    unlockCalls = IF interacted THEN 1 ELSE 0

\* Two clicks have happened (mute, then acknowledge, or the reverse) and one
\* unlock was started.
C13_Witness ==
    /\ unlockCalls = 1
    /\ isMuted /\ alarmAcknowledged
    /\ ~listening

\* C14: after the unmount no backend subscription is active, no repeating
\* timer is armed and the audio context is released, however the unmount
\* interleaves with the sign-in and with an unlock in flight.
C14_UnmountReleasesAll ==
    ~mounted =>
        /\ subs = NoSubs
        /\ alarm.timers = 0
        /\ alarm.audioCtx \in {"null", "closed"}

\* C15: at most one subscription is active per backend path, for every
\* outcome of the authentication, and each active subscription has its
\* unsubscribe handle held for the cleanup.
C15_OneSubscriptionPerPath ==
    \A p \in DOMAIN subs :
        /\ subs[p] <= 1
        /\ subs[p] = 1 => handles[p] = "live"

\* C16: the vibration and the system notification are fired by a step
\* exactly when that step is the evaluation in which the fall condition goes
\* from false to true; no other evaluation, telemetry update, mute toggle or
\* acknowledge click fires them.
C16_SystemAlertOnRisingEdgeOnly ==
    [][sysAlertFired' <=> (~activeAlert /\ activeAlert')]_vars

\* A fall starts after staff have already clicked on the dashboard.
C16_Witness ==
    /\ sysAlertFired
    /\ activeAlert /\ ~rendered.activeAlert
    /\ interacted

\* C18: whenever an error is recorded the dashboard has left the loading
\* screen, so the banner is rendered.
C18_ErrorImpliesBannerShown ==
    (mounted /\ error # "null") => ~loading

\* C19: a ward or device subscription error changes error and connected
\* only: the data, the alert cells, the player and what is due to be
\* rendered are as before.
C19_SubscriptionErrorFrame ==
    [][(OnWardError \/ OnDeviceError) =>
          /\ UNCHANGED <<wardData, sensorData, activeAlert, alarmAcknowledged,
                         isMuted, loading, deviceVars>>
          /\ alarm' = alarm
          /\ UNCHANGED <<rendered, dataDirty>>]_vars

\* The connection was lost while the alarm was sounding, and it still sounds.
C19_Witness ==
    /\ mounted /\ Settled
    /\ error = "lost" /\ ~connected
    /\ alarm.isPlaying /\ activeAlert
    /\ \E r \in DOMAIN wardData : RoomFall(wardData[r])

\* C20: when play() starts the alarm on the synthesized path and that path
\* gives no sound, the pre-rendered clip plays instead.
C20_PrimaryFailureFallsBack ==
    [][(~alarm.isPlaying /\ alarm'.isPlaying /\ WebPathReady(alarm)
            /\ alarm.fallbackAudio.exists /\ ~alarm'.source)
          => ~alarm'.fallbackAudio.paused]_vars

\* C17: every failed backend write of the devices tab shows an alert to the
\* user, and leaves the editor as it was.
C17_FailedWriteAlerts ==
    [][WriteFailed => (alerted' # "none" /\ editingDevice' = editingDevice)]_vars

\* C21: the mute click changes isMuted and leaves activeAlert,
\* alarmAcknowledged and the ward and sensor data as they were; and whenever
\* isMuted is true and the effects have run on the current values, the player
\* is not Playing, whatever the rooms say.
C21_MuteOrthogonal ==
    /\ [][MuteClick => UNCHANGED <<activeAlert, alarmAcknowledged, wardData,
                                    sensorData, dbWard>>]_vars
    /\ []((Settled /\ isMuted) => ~alarm.isPlaying)

\* Muted during an unacknowledged fall: the alert is up and the player silent.
C21_Witness ==
    /\ Settled
    /\ isMuted /\ interacted
    /\ activeAlert /\ ~alarmAcknowledged
    /\ \E r \in DOMAIN wardData : RoomFall(wardData[r])
    /\ ~alarm.isPlaying

\* C22: a device whose config.assigned_room is absent, "none" or
\* "unassigned" is listed as pending; a device with any other value is listed
\* under the room of that name.
C22_SentinelsArePending ==
    \A d \in Devices :
        LET room == dbDevices[d].assigned_room
        IN IF room \in {JUndef, JStr(sNone), JStr(sUnassigned)}
           THEN d \in pendingDevices
           ELSE d \notin pendingDevices /\ d \in PairedTo(room.s)

\* C23: whenever the player is Playing, sound is being produced: the
\* repeating timer of the synthesized path is armed or the fallback clip is
\* playing.
C23_PlayingMakesSound ==
    alarm.isPlaying => (alarm.timers > 0 \/ ~alarm.fallbackAudio.paused)

\* C24: the evaluation in which the alert goes from false to true leaves
\* alarmAcknowledged false whatever it was, and the commit that follows it,
\* with isMuted false, leaves the player Playing.
C24_RisingEdgePlays ==
    [][/\ (~activeAlert /\ activeAlert') => ~alarmAcknowledged'
       /\ (Render /\ activeAlert /\ ~rendered.activeAlert /\ ~isMuted)
             => alarm'.isPlaying]_vars

\* A new fall has just been evaluated while the acknowledgement of the
\* incident before it was still set: the alert is up and the acknowledgement
\* cleared, the commit that starts the alarm is due.
C24_Witness ==
    /\ activeAlert /\ ~rendered.activeAlert
    /\ rendered.alarmAcknowledged /\ ~alarmAcknowledged
    /\ ~isMuted
    /\ sysAlertFired

\* C25: in every reachable state of one AlarmSound a repeating timer is
\* armed only if isPlaying is true, and at most one is armed, after any
\* sequence of play(), stop(), dispose() and unlock calls; the player holds
\* the handle of the timer exactly while it is armed.
C25_TimerOnlyWhilePlaying ==
    /\ alarm.timers <= 1
    /\ alarm.timers > 0 => alarm.isPlaying
    /\ alarm.intervalId # 0 <=> alarm.timers = 1

\* The synthesized path is playing with its one timer armed, between two
\* bursts of the siren.
C25_Witness ==
    /\ alarm.isPlaying
    /\ alarm.timers = 1
    /\ alarm.isUnlocked
    /\ alarm.audioCtx = "running"
    /\ ~alarm.source

\* C26: audioReady is true only if the player is unlocked.
C26_AudioReadyImpliesUnlocked ==
    audioReady => alarm.isUnlocked

\* C27: a save-config write that succeeds closes the editor of its own
\* device only: an editor opened on another device while the write was in
\* flight is still open afterwards.
C27_SaveClosesOwnEditorOnly ==
    [][WriteConfirmed =>
          \A w \in writes \ writes' :
              (w.kind = "save" /\ editingDevice # w.device)
                  => editingDevice' = editingDevice]_vars

\* C28: a successful dashboard write (save config, quick-assign, unlink)
\* leaves the config of the device it wrote with room_id and assigned_room
\* naming the same room.
C28_RoomFieldsAgree ==
    [][WriteConfirmed =>
          \A d \in Devices :
              dbDevices'[d] # dbDevices[d]
                  => dbDevices'[d].room_id = dbDevices'[d].assigned_room]_vars

\* C29: once the effects have settled, activeAlert is true exactly when at
\* least one room card is shown in emergency state.
C29_AlertAgreesWithCards ==
    Settled =>
        (activeAlert <=> \E r \in DOMAIN wardData : isEmergency(wardData[r], sensorData))

\* C30: a click on "unlink all" that the user confirmed for the room (it
\* issued an unlink for some device of the room) issues the unlink for every
\* device paired to that room, so that all of them end with assigned_room =
\* 'none' when the writes succeed; and the click itself changes no assignment.
C30_UnlinkAllUnlinksAll ==
    [][UnlinkAllClick =>
          /\ dbDevices' = dbDevices
          /\ \A roomKey \in {RoomKey(r) : r \in Rooms} :
                (\E d \in PairedTo(roomKey) :
                    Write("unlink", d, sNone) \in writes' \ writes)
                => \A d \in PairedTo(roomKey) :
                      Write("unlink", d, sNone) \in writes']_vars

====
